---- MODULE Spec2Model ----
(***************************************************************************)
(* Checkable-input state resolution of hope-ui: the Checkbox component     *)
(* (src/src/components/Text/Text.tsx) and the SwitchPrimitive component    *)
(* (src/unnamed/part_001).  One component instance is mounted; the         *)
(* application re-renders it with new props, the enclosing contexts change *)
(* their state, and the user interacts with it.  An element that is given  *)
(* the handlers of createKeyboard (src/unnamed/part_000) is modelled the   *)
(* same way, as a third kind of component.                                 *)
(*                                                                         *)
(* JavaScript values are encoded as follows.  An optional boolean          *)
(* (boolean | undefined) is one of the strings "undefined", "true",        *)
(* "false".  An optional handler is "undefined" or "function".  A value    *)
(* prop (string | number | undefined) is a record tagged with its type.    *)
(* An attribute is the string it is emitted with, or "undefined" when it   *)
(* is omitted.                                                             *)
(***************************************************************************)
EXTENDS Integers, Sequences, FiniteSets, TLC

VARIABLES
    component,             \* which component is mounted
    props,                 \* the props the application currently passes
    formControl,           \* the enclosing form-control context, if any
    checkboxGroupContext,  \* the enclosing CheckboxGroup context, if any
    checkedState,          \* Checkbox: the signal of the uncontrolled state
    _checked,              \* SwitchPrimitive: state._checked
    isFocused,             \* SwitchPrimitive: state.isFocused
    inputChecked,          \* Checkbox: the live `checked` property of <input>
    attrs,                 \* what the last render emitted
    calls,                 \* what the last interaction did, in order
                           \* (createKeyboard: every event since creation)
    interactions           \* history: interactions counted since the mount

vars == <<component, props, formControl, checkboxGroupContext, checkedState,
          _checked, isFocused, inputChecked, attrs, calls, interactions>>

-----------------------------------------------------------------------------
(* Bounds *)

\* At most this many of the disabled / required / invalid / readOnly flags
\* are supplied (not undefined) at once, over the item, the form control and
\* the group together: while the component is interacted with, and while
\* only the flags are resolved.
MaxFlagsSet == 1

MaxFlagsResolved == 3

\* Interactions counted by the history of the uncontrolled specification.
MaxInteractions == 4

\* Keyboard events an element with keyboardProps receives.
MaxKeyEvents == 3

-----------------------------------------------------------------------------
(* JavaScript values *)

undefined == "undefined"

OptBool == {"undefined", "true", "false"}

\* !!x
Truthy(x) == x = "true"

ToBool(b) == IF b THEN "true" ELSE "false"

\* a ?? b
Nullish(a, b) == IF a = undefined THEN b ELSE a

Str(s) == [type |-> "string", val |-> s, num |-> 0]
Num(n) == [type |-> "number", val |-> "", num |-> n]
NoValue == [type |-> "undefined", val |-> "", num |-> 0]

Digits == <<"0", "1", "2", "3", "4", "5", "6", "7", "8", "9">>

RECURSIVE NumberToString(_)
NumberToString(n) ==
    IF n < 10 THEN Digits[n + 1]
    ELSE NumberToString(n \div 10) \o Digits[(n % 10) + 1]

\* a ?? b on value props
ValueOr(a, b) == IF a.type = "undefined" THEN b ELSE a

\* String(v)
String(v) ==
    CASE v.type = "string" -> v.val
      [] v.type = "number" -> NumberToString(v.num)
      [] OTHER -> "undefined"

FlagNames == {"required", "disabled", "invalid", "readOnly"}

-----------------------------------------------------------------------------
(* Contexts *)

\* A component outside a provider sees no context.
NoContext == [present |-> FALSE]

\* checkboxGroupContext?.state.<field>
GroupState(g, field) == IF g.present THEN g.state[field] ELSE undefined

\* useFormControl(props): each flag is the component's own prop, or else the
\* ambient form-control default (props.x ?? formControl?.state.x); without a
\* form control the props are returned as they are.
useFormControl(p, fc) ==
    IF fc.present
    THEN [required |-> Nullish(p.required, fc.state.required),
          disabled |-> Nullish(p.disabled, fc.state.disabled),
          invalid  |-> Nullish(p.invalid, fc.state.invalid),
          readOnly |-> Nullish(p.readOnly, fc.state.readOnly)]
    ELSE [required |-> p.required,
          disabled |-> p.disabled,
          invalid  |-> p.invalid,
          readOnly |-> p.readOnly]

-----------------------------------------------------------------------------
(* Checkbox *)

required(p, fc, g) == Nullish(useFormControl(p, fc).required, GroupState(g, "required"))

\* Mutant: the group's flag is taken before the item's.
disabled_GroupFirst(p, fc, g) ==
    Nullish(GroupState(g, "disabled"), useFormControl(p, fc).disabled)

disabled(p, fc, g) == Nullish(useFormControl(p, fc).disabled, GroupState(g, "disabled"))

invalid(p, fc, g) == Nullish(useFormControl(p, fc).invalid, GroupState(g, "invalid"))

readOnly(p, fc, g) == Nullish(useFormControl(p, fc).readOnly, GroupState(g, "readOnly"))

\* Mutant: the checked prop is never taken as control.
isControlled_Never(p) == FALSE

\* Mutant: the test for the checked prop is inverted.
isControlled_Inverted(p) == p.checked = undefined

isControlled(p) == p.checked # undefined

\* Mutant: the members are compared with the value as they are, without
\* String().
SomeMatches_Strict(checkboxGroupValue, value) ==
    value \in checkboxGroupValue.items

\* checkboxGroupValue.some(val => String(inputProps.value) === String(val))
SomeMatches(checkboxGroupValue, value) ==
    \E val \in checkboxGroupValue.items : String(value) = String(val)

\* Mutant: a group without a collection lets the item decide.
checked_FallsThrough(p, g, cs) ==
    IF g.present /\ ~g.state.value.isNull
    THEN ToBool(SomeMatches(g.state.value, p.value))
    ELSE IF isControlled(p) THEN ToBool(Truthy(p.checked)) ELSE ToBool(cs)

\* The resolved checked value: "true", "false" or "undefined".
checked(p, g, cs) ==
    IF g.present
    THEN IF ~g.state.value.isNull
         THEN ToBool(SomeMatches(g.state.value, p.value))
         ELSE undefined
    ELSE IF isControlled(p) THEN ToBool(Truthy(p.checked)) ELSE ToBool(cs)

\* Mutant: the marker is emitted for every supplied value.
DataAttr_Supplied(x) == IF x # undefined THEN "" ELSE undefined

\* x ? "" : undefined
DataAttr(x) == IF Truthy(x) THEN "" ELSE undefined

\* Mutant: the boolean itself is emitted.
AriaAttr_Boolean(x) == IF x # undefined THEN x ELSE undefined

\* x ? true : undefined
AriaAttr(x) == IF Truthy(x) THEN "true" ELSE undefined

dataIndeterminate(p) == DataAttr(p.indeterminate)

dataChecked(p, g, cs) == DataAttr(checked(p, g, cs))

dataRequired(p, fc, g) == DataAttr(required(p, fc, g))

dataDisabled(p, fc, g) == DataAttr(disabled(p, fc, g))

dataInvalid(p, fc, g) == DataAttr(invalid(p, fc, g))

dataReadonly(p, fc, g) == DataAttr(readOnly(p, fc, g))

ariaRequired(p, fc, g) == AriaAttr(required(p, fc, g))

ariaDisabled(p, fc, g) == AriaAttr(disabled(p, fc, g))

ariaInvalid(p, fc, g) == AriaAttr(invalid(p, fc, g))

ariaReadonly(p, fc, g) == AriaAttr(readOnly(p, fc, g))

\* Mutant: the two <Match> branches are tested in the other order, the
\* second without its !indeterminate.
Indicator_CheckedFirst(p, g, cs) ==
    IF Truthy(checked(p, g, cs)) THEN "iconChecked"
    ELSE IF Truthy(p.indeterminate) THEN "iconIndeterminate"
    ELSE "none"

\* <Switch>
\*   <Match when={indeterminate}>{iconIndeterminate}</Match>
\*   <Match when={checked() && !indeterminate}>{iconChecked}</Match>
\* </Switch>
Indicator(p, g, cs) ==
    IF Truthy(p.indeterminate) THEN "iconIndeterminate"
    ELSE IF Truthy(checked(p, g, cs)) /\ ~Truthy(p.indeterminate) THEN "iconChecked"
    ELSE "none"

\* The attributes of the rendered <label>, <input> and control <span>.
\* A Checkbox emits no aria-checked and no data-focus.
CheckboxRender(p, fc, g, cs) ==
    [ checked           |-> checked(p, g, cs),
      required          |-> required(p, fc, g),
      disabled          |-> disabled(p, fc, g),
      invalid           |-> invalid(p, fc, g),
      readOnly          |-> readOnly(p, fc, g),
      ariaChecked       |-> undefined,
      ariaRequired      |-> ariaRequired(p, fc, g),
      ariaDisabled      |-> ariaDisabled(p, fc, g),
      ariaInvalid       |-> ariaInvalid(p, fc, g),
      ariaReadonly      |-> ariaReadonly(p, fc, g),
      dataIndeterminate |-> dataIndeterminate(p),
      dataFocus         |-> undefined,
      dataChecked       |-> dataChecked(p, g, cs),
      dataRequired      |-> dataRequired(p, fc, g),
      dataDisabled      |-> dataDisabled(p, fc, g),
      dataInvalid       |-> dataInvalid(p, fc, g),
      dataReadonly      |-> dataReadonly(p, fc, g),
      indicator         |-> Indicator(p, g, cs) ]

\* One entry of `calls`: the function called, the boolean it was given (the
\* event's target.checked, or the new value) and the event's target.value.
\* The first entry of `calls` is the component's handler that the event
\* was dispatched to.
Call(fn, b, v) == [fn |-> fn, checked |-> b, value |-> v]

\* callAllHandlers(...fns)(event): the handlers that are defined are called in
\* the order given; a handler that throws ends the chain.
callAllHandlers(fns, event, throws) ==
    LET defined == SelectSeq(fns, LAMBDA h : h.defined)
        upTo == IF \E i \in 1..Len(defined) : defined[i].fn \in throws
                THEN CHOOSE i \in 1..Len(defined) :
                        /\ defined[i].fn \in throws
                        /\ \A j \in 1..(i - 1) : defined[j].fn \notin throws
                ELSE Len(defined)
    IN [i \in 1..upTo |-> Call(defined[i].fn, event.checked, event.value)]

\* Mutant: the item's handler is handed to callAllHandlers before the
\* group's.
onChange_ItemFirst(p, g, cs, target, throws) ==
    IF Truthy(p.readOnly) \/ Truthy(p.disabled)
    THEN [checkedState |-> cs,
          calls |-> <<Call("event.preventDefault", target.checked, target.value)>>]
    ELSE [checkedState |-> IF ~isControlled(p) THEN target.checked ELSE cs,
          calls |->
              (IF ~isControlled(p)
               THEN <<Call("setCheckedState", target.checked, target.value)>>
               ELSE <<>>)
              \o callAllHandlers(
                    <<[fn |-> "local.onChange", defined |-> p.onChange # undefined],
                      [fn |-> "checkboxGroupContext.onChange", defined |-> g.present]>>,
                    target, throws)]

\* The Checkbox's onChange handler on an event whose target is the <input>:
\* the new internal state and the calls made, in order.
onChange(p, g, cs, target, throws) ==
    IF Truthy(p.readOnly) \/ Truthy(p.disabled)
    THEN [checkedState |-> cs,
          calls |-> <<Call("event.preventDefault", target.checked, target.value)>>]
    ELSE [checkedState |-> IF ~isControlled(p) THEN target.checked ELSE cs,
          calls |->
              (IF ~isControlled(p)
               THEN <<Call("setCheckedState", target.checked, target.value)>>
               ELSE <<>>)
              \o callAllHandlers(
                    <<[fn |-> "checkboxGroupContext.onChange", defined |-> g.present],
                      [fn |-> "local.onChange", defined |-> p.onChange # undefined]>>,
                    target, throws)]

\* What the group does with a change it was told about: its collection is
\* its own, so it either applies the toggle of target.value or keeps its
\* collection (a controlled group whose owner declines).
GroupAfterChange(g, target) ==
    IF g.state.value.isNull THEN {g}
    ELSE LET items == g.state.value.items
             others == {val \in items : String(val) # target.value}
             toggled == IF target.checked THEN items \cup {Str(target.value)} ELSE others
         IN {g, [g EXCEPT !.state.value.items = toggled]}

\* checked={checked()} on the <input>: the render effect assigns the live
\* property only when the resolved value differs from the one last rendered;
\* otherwise the property keeps what the user left it at.
InputCheckedAfterRender(lastRendered, resolved, live) ==
    IF resolved # lastRendered THEN Truthy(resolved) ELSE live

-----------------------------------------------------------------------------
(* SwitchPrimitive *)

\* The store created by createStore: c is _checked, f is isFocused.
state(p, fc, c, f) ==
    LET formControlProps == useFormControl(p, fc)
        controlled == p.checked # undefined
        isChecked == IF controlled THEN Truthy(p.checked) ELSE c
    IN [ _checked     |-> c,
         isFocused    |-> f,
         isControlled |-> controlled,
         checked      |-> isChecked,
         required     |-> formControlProps.required,
         disabled     |-> formControlProps.disabled,
         invalid      |-> formControlProps.invalid,
         readOnly     |-> formControlProps.readOnly,
         ariaRequired |-> AriaAttr(formControlProps.required),
         ariaDisabled |-> AriaAttr(formControlProps.disabled),
         ariaInvalid  |-> AriaAttr(formControlProps.invalid),
         ariaReadonly |-> AriaAttr(formControlProps.readOnly),
         dataFocus    |-> IF f THEN "" ELSE undefined,
         dataChecked  |-> IF isChecked THEN "" ELSE undefined,
         dataRequired |-> DataAttr(formControlProps.required),
         dataDisabled |-> DataAttr(formControlProps.disabled),
         dataInvalid  |-> DataAttr(formControlProps.invalid),
         dataReadonly |-> DataAttr(formControlProps.readOnly) ]

\* aria-checked={state.checked}: the boolean itself is handed to the attribute.
SwitchAriaChecked(st) == ToBool(st.checked)

\* The attributes of the rendered <button> and the data-* entries of the
\* state handed to the children.  A switch has no indeterminate state.
SwitchRender(p, fc, c, f) ==
    LET st == state(p, fc, c, f)
    IN [ checked           |-> ToBool(st.checked),
         required          |-> st.required,
         disabled          |-> st.disabled,
         invalid           |-> st.invalid,
         readOnly          |-> st.readOnly,
         ariaChecked       |-> SwitchAriaChecked(st),
         ariaRequired      |-> st.ariaRequired,
         ariaDisabled      |-> st.ariaDisabled,
         ariaInvalid       |-> st.ariaInvalid,
         ariaReadonly      |-> st.ariaReadonly,
         dataIndeterminate |-> undefined,
         dataFocus         |-> st.dataFocus,
         dataChecked       |-> st.dataChecked,
         dataRequired      |-> st.dataRequired,
         dataDisabled      |-> st.dataDisabled,
         dataInvalid       |-> st.dataInvalid,
         dataReadonly      |-> st.dataReadonly,
         indicator         |-> "none" ]

\* callHandler(handler)(event): the handler is called when it is defined.
callHandler(fn, handler, b, v) ==
    IF handler # undefined THEN <<Call(fn, b, v)>> ELSE <<>>

\* Mutant: the new value is the negation of the internal state.
onClick_NegatesInternal(p, fc, c, f, onChangeThrows) ==
    LET st == state(p, fc, c, f)
        newValue == ~st._checked
        v == String(ValueOr(p.value, Str("on")))
    IN IF Truthy(st.readOnly) \/ Truthy(st.disabled)
       THEN [_checked |-> c, calls |-> <<Call("event.preventDefault", st.checked, v)>>]
       ELSE [_checked |-> IF ~st.isControlled THEN newValue ELSE c,
             calls |->
                 (IF ~st.isControlled
                  THEN <<Call("setState", newValue, v)>> ELSE <<>>)
                 \o callHandler("local.onChange", p.onChange, newValue, v)
                 \o (IF onChangeThrows /\ p.onChange # undefined THEN <<>>
                     ELSE callHandler("local.onClick", p.onClick, newValue, v))]

\* The SwitchPrimitive's onClick handler: the new _checked and the calls
\* made, in order.  onChangeThrows: the application's onChange throws.
onClick(p, fc, c, f, onChangeThrows) ==
    LET st == state(p, fc, c, f)
        newValue == ~st.checked
        v == String(ValueOr(p.value, Str("on")))   \* props.value ?? "on"
    IN IF Truthy(st.readOnly) \/ Truthy(st.disabled)
       THEN [_checked |-> c, calls |-> <<Call("event.preventDefault", st.checked, v)>>]
       ELSE [_checked |-> IF ~st.isControlled THEN newValue ELSE c,
             calls |->
                 (IF ~st.isControlled
                  THEN <<Call("setState", newValue, v)>> ELSE <<>>)
                 \o callHandler("local.onChange", p.onChange, newValue, v)
                 \o (IF onChangeThrows /\ p.onChange # undefined THEN <<>>
                     ELSE callHandler("local.onClick", p.onClick, newValue, v))]

\* The value of <SwitchPrimitiveContext.Provider value={context}> as a
\* component sees it: { state }, the store itself, for a descendant of a
\* SwitchPrimitive; the default of createContext() (undefined, encoded as
\* NoContext) anywhere else.
SwitchPrimitiveContext(k, p, fc, c, f, inside) ==
    IF k = "SwitchPrimitive" /\ inside
    THEN [present |-> TRUE, state |-> state(p, fc, c, f)]
    ELSE NoContext

\* The message of the Error the accessor throws (the source sets the
\* component's tag in backquotes).
ContextError ==
    "[Hope UI]: useSwitcPrimitivehContext must be used within a <SwitchPrimitive /> component"

\* The outcome of a call: it threw an Error with this message and returned
\* nothing, or it returned this context.
Threw(fn, error) == [fn |-> fn, threw |-> TRUE, error |-> error, context |-> NoContext]

Returned(fn, context) == [fn |-> fn, threw |-> FALSE, error |-> undefined, context |-> context]

\* Mutant: the accessor hands back whatever useContext gave.
useSwitcPrimitivehContext_Unchecked(context) ==
    Returned("useSwitcPrimitivehContext", context)

\* useSwitcPrimitivehContext(), given what useContext(SwitchPrimitiveContext)
\* yields where it is called.
useSwitcPrimitivehContext(context) ==
    IF ~context.present
    THEN Threw("useSwitcPrimitivehContext", ContextError)
    ELSE Returned("useSwitcPrimitivehContext", context)

-----------------------------------------------------------------------------
(* createKeyboard *)

\* A call made with a keyboard event.  An event is its type, its key and
\* its place among the events the element received.
KeyCall(fn, event) == [fn |-> fn, event |-> event]

\* Mutant: the handler passes the event on whatever isDisabled is.
onKeyDown_Undisabled(p, event) ==
    IF p.onKeyDown # undefined THEN <<KeyCall("props.onKeyDown", event)>> ELSE <<>>

\* The onKeyDown handler of keyboardProps: the calls it makes.
onKeyDown(p, event) ==
    IF Truthy(p.isDisabled) THEN <<>>
    ELSE IF p.onKeyDown # undefined THEN <<KeyCall("props.onKeyDown", event)>> ELSE <<>>

\* The onKeyUp handler of keyboardProps.
onKeyUp(p, event) ==
    IF Truthy(p.isDisabled) THEN <<>>
    ELSE IF p.onKeyUp # undefined THEN <<KeyCall("props.onKeyUp", event)>> ELSE <<>>

\* The memo createKeyboard returns: both handlers, always.
keyboardProps == [onKeyDown |-> "function", onKeyUp |-> "function"]

-----------------------------------------------------------------------------
(* The mounted component *)

Components == {"Checkbox", "SwitchPrimitive"}

Handlers == {"undefined", "function"}

\* The value props a Checkbox is given, and the members a group's collection
\* is drawn from: "a" matches as it is, 1 matches "1" only through String().
ItemValues == {Str("a"), Num(1)}

GroupMembers == {Str("a"), Str("1")}

NullCollection == [isNull |-> TRUE, items |-> {}]

Collection(items) == [isNull |-> FALSE, items |-> items]

GroupValues == {NullCollection} \cup {Collection(S) : S \in SUBSET GroupMembers}

NoFlags == [f \in FlagNames |-> undefined]

\* How many flags are supplied, over the three levels.
SuppliedIn(r) == Cardinality({f \in FlagNames : r[f] # undefined})

FlagsSet(p, fc, g) ==
    SuppliedIn(p)
    + (IF fc.present THEN SuppliedIn(fc.state) ELSE 0)
    + (IF g.present THEN SuppliedIn(g.state) ELSE 0)

Render(k, p, fc, g, cs, c, f) ==
    IF k = "Checkbox" THEN CheckboxRender(p, fc, g, cs) ELSE SwitchRender(p, fc, c, f)

\* The state right after the component function has run: the internal state
\* is seeded from defaultChecked and the first render has happened.
Mounted(k, p, fc, g) ==
    /\ component = k
    /\ props = p
    /\ formControl = fc
    /\ checkboxGroupContext = g
    /\ checkedState = (k = "Checkbox" /\ Truthy(p.defaultChecked))
    /\ _checked = (k = "SwitchPrimitive" /\ Truthy(p.defaultChecked))
    /\ isFocused = FALSE
    /\ attrs = Render(k, p, fc, g, Truthy(p.defaultChecked), Truthy(p.defaultChecked), FALSE)
    /\ inputChecked = (k = "Checkbox"
                       /\ Truthy(checked(p, g, Truthy(p.defaultChecked))))
    /\ calls = <<>>
    /\ interactions = 0

\* Props at mount: no flag supplied yet, everything else free.
PropsAtMount(k, checkedValues, defaults, handlers) ==
    { [ checked        |-> ch,
        defaultChecked |-> dc,
        indeterminate  |-> undefined,
        required       |-> undefined,
        disabled       |-> undefined,
        invalid        |-> undefined,
        readOnly       |-> undefined,
        value          |-> v,
        onChange       |-> oc,
        onClick        |-> ok ] :
        ch \in checkedValues, dc \in defaults,
        v \in (IF k = "Checkbox" THEN ItemValues ELSE {NoValue}),
        oc \in handlers,
        ok \in (IF k = "Checkbox" THEN {undefined} ELSE handlers) }

FormControlsAtMount == {NoContext, [present |-> TRUE, state |-> NoFlags]}

GroupsAtMount(values) ==
    { [present |-> TRUE,
       state |-> [value |-> gv, required |-> undefined, disabled |-> undefined,
                  invalid |-> undefined, readOnly |-> undefined]] :
      gv \in values }

\* Every action ends with the reactive re-render: the attributes are
\* recomputed and the <input>'s live property is assigned if the resolved
\* checked value changed.  live: the property as the user left it.
Rerender(live) ==
    /\ attrs' = Render(component, props', formControl', checkboxGroupContext',
                       checkedState', _checked', isFocused')
    /\ inputChecked' = IF component = "Checkbox"
                       THEN InputCheckedAfterRender(attrs.checked, attrs'.checked, live)
                       ELSE inputChecked

-----------------------------------------------------------------------------
(* The application re-renders with new props; the contexts change *)

SetChecked(v) ==
    /\ v # props.checked
    /\ props' = [props EXCEPT !.checked = v]
    /\ calls' = <<>>
    /\ UNCHANGED <<component, formControl, checkboxGroupContext, checkedState,
                   _checked, isFocused, interactions>>
    /\ Rerender(inputChecked)

SetIndeterminate(v) ==
    /\ component = "Checkbox"
    /\ v # props.indeterminate
    /\ props' = [props EXCEPT !.indeterminate = v]
    /\ calls' = <<>>
    /\ UNCHANGED <<component, formControl, checkboxGroupContext, checkedState,
                   _checked, isFocused, interactions>>
    /\ Rerender(inputChecked)

SetValue(v) ==
    /\ component = "Checkbox"
    /\ v # props.value
    /\ props' = [props EXCEPT !.value = v]
    /\ calls' = <<>>
    /\ UNCHANGED <<component, formControl, checkboxGroupContext, checkedState,
                   _checked, isFocused, interactions>>
    /\ Rerender(inputChecked)

SetFlag(f, v, max) ==
    /\ v # props[f]
    /\ props' = [props EXCEPT ![f] = v]
    /\ FlagsSet(props', formControl, checkboxGroupContext) <= max
    /\ calls' = <<>>
    /\ UNCHANGED <<component, formControl, checkboxGroupContext, checkedState,
                   _checked, isFocused, interactions>>
    /\ Rerender(inputChecked)

FormControlSetFlag(f, v, max) ==
    /\ formControl.present
    /\ v # formControl.state[f]
    /\ formControl' = [formControl EXCEPT !.state[f] = v]
    /\ FlagsSet(props, formControl', checkboxGroupContext) <= max
    /\ calls' = <<>>
    /\ UNCHANGED <<component, props, checkboxGroupContext, checkedState,
                   _checked, isFocused, interactions>>
    /\ Rerender(inputChecked)

GroupSetFlag(f, v, max) ==
    /\ checkboxGroupContext.present
    /\ v # checkboxGroupContext.state[f]
    /\ checkboxGroupContext' = [checkboxGroupContext EXCEPT !.state[f] = v]
    /\ FlagsSet(props, formControl, checkboxGroupContext') <= max
    /\ calls' = <<>>
    /\ UNCHANGED <<component, props, formControl, checkedState, _checked, isFocused, interactions>>
    /\ Rerender(inputChecked)

GroupSetValue(gv) ==
    /\ checkboxGroupContext.present
    /\ gv # checkboxGroupContext.state.value
    /\ checkboxGroupContext' = [checkboxGroupContext EXCEPT !.state.value = gv]
    /\ calls' = <<>>
    /\ UNCHANGED <<component, props, formControl, checkedState, _checked, isFocused, interactions>>
    /\ Rerender(inputChecked)

-----------------------------------------------------------------------------
(* The user interacts *)

\* The user toggles the <input>: the browser flips its live property and
\* fires the change event, whose target is the <input>.  A change event is
\* not cancelable, so the property stays flipped whatever the handler does,
\* until a render assigns it.
CheckboxOnChange(throws) ==
    /\ component = "Checkbox"
    /\ LET target == [checked |-> ~inputChecked, value |-> String(props.value)]
           r == onChange(props, checkboxGroupContext, checkedState, target, throws)
           told == \E i \in 1..Len(r.calls) :
                      r.calls[i].fn = "checkboxGroupContext.onChange"
       IN /\ checkedState' = r.checkedState
          /\ calls' = <<Call("onChange", target.checked, target.value)>> \o r.calls
          /\ checkboxGroupContext' \in
                IF told /\ "checkboxGroupContext.onChange" \notin throws
                THEN GroupAfterChange(checkboxGroupContext, target)
                ELSE {checkboxGroupContext}
          /\ UNCHANGED <<component, props, formControl, _checked, isFocused>>
          /\ Rerender(target.checked)

SwitchOnClick(onChangeThrows) ==
    /\ component = "SwitchPrimitive"
    /\ LET r == onClick(props, formControl, _checked, isFocused, onChangeThrows)
       IN /\ _checked' = r._checked
          /\ calls' = <<Call("onClick", state(props, formControl, _checked, isFocused).checked,
                              "on")>> \o r.calls
    /\ UNCHANGED <<component, props, formControl, checkboxGroupContext,
                   checkedState, isFocused>>
    /\ Rerender(inputChecked)

SwitchOnFocus ==
    /\ component = "SwitchPrimitive"
    /\ isFocused' = TRUE
    /\ calls' = <<Call("onFocus", TRUE, "on"), Call("setState.isFocused", TRUE, "on")>>
    /\ UNCHANGED <<component, props, formControl, checkboxGroupContext,
                   checkedState, _checked, interactions>>
    /\ Rerender(inputChecked)

SwitchOnBlur ==
    /\ component = "SwitchPrimitive"
    /\ isFocused' = FALSE
    /\ calls' = <<Call("onBlur", FALSE, "on"), Call("setState.isFocused", FALSE, "on")>>
    /\ UNCHANGED <<component, props, formControl, checkboxGroupContext,
                   checkedState, _checked, interactions>>
    /\ Rerender(inputChecked)

-----------------------------------------------------------------------------
(* A component reads the switch's context *)

\* A component that calls useSwitcPrimitivehContext() is rendered: among the
\* children of the mounted SwitchPrimitive (inside), or somewhere that has
\* no SwitchPrimitive above it.  The call changes nothing; `calls` keeps
\* where it was made and its outcome.
ConsumerRenders(inside) ==
    /\ inside => component = "SwitchPrimitive"
    /\ calls' = << [fn |-> "Consumer", inside |-> inside],
                   useSwitcPrimitivehContext(
                       SwitchPrimitiveContext(component, props, formControl,
                                              _checked, isFocused, inside)) >>
    /\ UNCHANGED <<component, props, formControl, checkboxGroupContext, checkedState,
                   _checked, isFocused, inputChecked, attrs, interactions>>

-----------------------------------------------------------------------------
(* An element that spreads keyboardProps *)

Keys == {"Enter", " "}

CreateKeyboardProps ==
    [isDisabled : OptBool, onKeyDown : Handlers, onKeyUp : Handlers]

\* The state after createKeyboard(p) has run and the element has been given
\* keyboardProps(): `calls` is everything the element's handlers did since.
KeyboardCreated(p) ==
    /\ component = "createKeyboard"
    /\ props = p
    /\ formControl = NoContext
    /\ checkboxGroupContext = NoContext
    /\ checkedState = FALSE
    /\ _checked = FALSE
    /\ isFocused = FALSE
    /\ inputChecked = FALSE
    /\ attrs = keyboardProps
    /\ calls = <<>>
    /\ interactions = 0

\* The owner changes the reactive isDisabled prop; no handler runs.
SetIsDisabled(v) ==
    /\ component = "createKeyboard"
    /\ v # props.isDisabled
    /\ props' = [props EXCEPT !.isDisabled = v]
    /\ UNCHANGED <<component, formControl, checkboxGroupContext, checkedState, _checked,
                   isFocused, inputChecked, attrs, calls, interactions>>

\* A key goes down on the element: its onKeyDown, the one of keyboardProps,
\* is called with the event.
KeyDown(key) ==
    /\ component = "createKeyboard"
    /\ interactions < MaxKeyEvents
    /\ LET event == [type |-> "keydown", key |-> key, n |-> interactions + 1]
       IN calls' = calls \o <<KeyCall("keyboardProps.onKeyDown", event)>>
                         \o onKeyDown(props, event)
    /\ interactions' = interactions + 1
    /\ UNCHANGED <<component, props, formControl, checkboxGroupContext, checkedState,
                   _checked, isFocused, inputChecked, attrs>>

\* A key goes up on the element.
KeyUp(key) ==
    /\ component = "createKeyboard"
    /\ interactions < MaxKeyEvents
    /\ LET event == [type |-> "keyup", key |-> key, n |-> interactions + 1]
       IN calls' = calls \o <<KeyCall("keyboardProps.onKeyUp", event)>>
                         \o onKeyUp(props, event)
    /\ interactions' = interactions + 1
    /\ UNCHANGED <<component, props, formControl, checkboxGroupContext, checkedState,
                   _checked, isFocused, inputChecked, attrs>>

-----------------------------------------------------------------------------
(* Specifications *)

\* An interaction that the history does not count, and one that it does.
Uncounted == UNCHANGED interactions

Counted == interactions < MaxInteractions /\ interactions' = interactions + 1

GuardFlags == {"disabled", "readOnly"}

ThrowSets == {{}, {"checkboxGroupContext.onChange"}}

\* Spec: resolution and interaction.  A Checkbox alone or under a
\* CheckboxGroup, a SwitchPrimitive alone or under a form control; the flags
\* that guard the handlers change at every level.
Init ==
    \E k \in Components :
        \E p \in PropsAtMount(k, OptBool, {undefined, "true"}, Handlers),
           ctx \in (IF k = "Checkbox"
                    THEN {<<NoContext, g>> : g \in {NoContext} \cup GroupsAtMount(GroupValues)}
                    ELSE {<<fc, NoContext>> : fc \in FormControlsAtMount}) :
            Mounted(k, p, ctx[1], ctx[2])

Next ==
    \/ \E v \in OptBool : SetChecked(v)
    \/ \E v \in {undefined, "true"} : SetIndeterminate(v)
    \/ \E v \in ItemValues : SetValue(v)
    \/ \E f \in GuardFlags, v \in OptBool : SetFlag(f, v, MaxFlagsSet)
    \/ \E f \in GuardFlags, v \in OptBool : FormControlSetFlag(f, v, MaxFlagsSet)
    \/ \E f \in GuardFlags, v \in OptBool : GroupSetFlag(f, v, MaxFlagsSet)
    \/ \E gv \in GroupValues : GroupSetValue(gv)
    \/ \E throws \in ThrowSets : CheckboxOnChange(throws) /\ Uncounted
    \/ \E t \in BOOLEAN : SwitchOnClick(t) /\ Uncounted
    \/ SwitchOnFocus
    \/ SwitchOnBlur

Spec == Init /\ [][Next]_vars

\* SpecControlled: an ungrouped component that is given the `checked` prop
\* from the mount on, and keeps being given it.
InitControlled ==
    \E k \in Components :
        \E p \in PropsAtMount(k, {"true", "false"}, OptBool, Handlers),
           fc \in FormControlsAtMount :
            Mounted(k, p, fc, NoContext)

NextControlled ==
    \/ \E v \in {"true", "false"} : SetChecked(v)
    \/ \E v \in OptBool : SetIndeterminate(v)
    \/ \E f \in GuardFlags, v \in OptBool : SetFlag(f, v, MaxFlagsSet)
    \/ \E f \in GuardFlags, v \in OptBool : FormControlSetFlag(f, v, MaxFlagsSet)
    \/ CheckboxOnChange({}) /\ Uncounted
    \/ \E t \in BOOLEAN : SwitchOnClick(t) /\ Uncounted
    \/ SwitchOnFocus
    \/ SwitchOnBlur

SpecControlled == InitControlled /\ [][NextControlled]_vars

\* SpecUncontrolled: an ungrouped component that is never given the
\* `checked` prop and is never disabled or read-only; its interactions are
\* counted.
InitUncontrolled ==
    \E k \in Components :
        \E p \in PropsAtMount(k, {undefined}, OptBool, Handlers),
           fc \in FormControlsAtMount :
            Mounted(k, p, fc, NoContext)

NextUncontrolled ==
    \/ \E v \in OptBool : SetIndeterminate(v)
    \/ \E v \in ItemValues : SetValue(v)
    \/ \E f \in {"required", "invalid"}, v \in OptBool : SetFlag(f, v, MaxFlagsSet)
    \/ CheckboxOnChange({}) /\ Counted
    \/ \E t \in BOOLEAN : SwitchOnClick(t) /\ Counted
    \/ SwitchOnFocus
    \/ SwitchOnBlur

SpecUncontrolled == InitUncontrolled /\ [][NextUncontrolled]_vars

\* SpecFlags: the four flags of a Checkbox are supplied and withdrawn at the
\* item, the form control and the group; nothing else happens.
InitFlags ==
    \E p \in PropsAtMount("Checkbox", {undefined}, {undefined}, {"function"}),
       fc \in FormControlsAtMount,
       g \in {NoContext} \cup GroupsAtMount({Collection({})}) :
        Mounted("Checkbox", p, fc, g)

NextFlags ==
    \/ \E f \in FlagNames, v \in OptBool : SetFlag(f, v, MaxFlagsResolved)
    \/ \E f \in FlagNames, v \in OptBool : FormControlSetFlag(f, v, MaxFlagsResolved)
    \/ \E f \in FlagNames, v \in OptBool : GroupSetFlag(f, v, MaxFlagsResolved)

SpecFlags == InitFlags /\ [][NextFlags]_vars

\* SpecAttrs: the rendered attributes.  Every flag changes at the item and
\* at the enclosing context, the checked value is resolved from each of its
\* sources, and the component is interacted with.
AttrGroupValues == {NullCollection, Collection({}), Collection({Str("a")})}

InitAttrs ==
    \E k \in Components :
        \E p \in PropsAtMount(k, OptBool, {undefined}, {"function"}),
           ctx \in (IF k = "Checkbox"
                    THEN {<<NoContext, g>> : g \in {NoContext} \cup GroupsAtMount(AttrGroupValues)}
                    ELSE {<<fc, NoContext>> : fc \in FormControlsAtMount}) :
            /\ p.value \in {Str("a"), NoValue}
            /\ Mounted(k, p, ctx[1], ctx[2])

NextAttrs ==
    \/ \E v \in OptBool : SetChecked(v)
    \/ \E v \in OptBool : SetIndeterminate(v)
    \/ \E f \in FlagNames, v \in OptBool : SetFlag(f, v, MaxFlagsSet)
    \/ \E f \in FlagNames, v \in OptBool : FormControlSetFlag(f, v, MaxFlagsSet)
    \/ \E f \in FlagNames, v \in OptBool : GroupSetFlag(f, v, MaxFlagsSet)
    \/ \E gv \in AttrGroupValues : GroupSetValue(gv)
    \/ CheckboxOnChange({}) /\ Uncounted
    \/ SwitchOnClick(FALSE) /\ Uncounted
    \/ SwitchOnFocus
    \/ SwitchOnBlur

SpecAttrs == InitAttrs /\ [][NextAttrs]_vars

\* SpecContext: what the absence of a context does.  A SwitchPrimitive with
\* components that read its context inside and outside it, and a Checkbox
\* that has no CheckboxGroup above it.
InitContext ==
    \E k \in Components :
        \E p \in PropsAtMount(k, OptBool, OptBool, Handlers),
           fc \in (IF k = "Checkbox" THEN {NoContext} ELSE FormControlsAtMount) :
            Mounted(k, p, fc, NoContext)

NextContext ==
    \/ \E v \in OptBool : SetChecked(v)
    \/ \E f \in GuardFlags, v \in OptBool : SetFlag(f, v, MaxFlagsSet)
    \/ \E f \in GuardFlags, v \in OptBool : FormControlSetFlag(f, v, MaxFlagsSet)
    \/ CheckboxOnChange({}) /\ Uncounted
    \/ SwitchOnClick(FALSE) /\ Uncounted
    \/ SwitchOnFocus
    \/ SwitchOnBlur
    \/ \E inside \in BOOLEAN : ConsumerRenders(inside)

SpecContext == InitContext /\ [][NextContext]_vars

\* SpecKeyboard: an element with the handlers of createKeyboard receives
\* key events while its owner switches isDisabled.
InitKeyboard == \E p \in CreateKeyboardProps : KeyboardCreated(p)

NextKeyboard ==
    \/ \E v \in OptBool : SetIsDisabled(v)
    \/ \E key \in Keys : KeyDown(key)
    \/ \E key \in Keys : KeyUp(key)

SpecKeyboard == InitKeyboard /\ [][NextKeyboard]_vars

-----------------------------------------------------------------------------
(* Properties *)

Grouped == component = "Checkbox" /\ checkboxGroupContext.present

GroupCollection == checkboxGroupContext.state.value

\* The last step was a change (Checkbox) or a click (SwitchPrimitive).
Interacted == calls # <<>> /\ calls[1].fn \in {"onChange", "onClick"}

\* The handlers the last interaction called, in order.
CalledFns == [i \in 1..Len(calls) |-> calls[i].fn]

Called(fn) == \E i \in 1..Len(calls) : calls[i].fn = fn

\* C1: a Checkbox in a group whose collection is not null is resolved
\* checked exactly when the string of its value is the string of a member
\* of the collection, whatever its checked prop, its defaultChecked and its
\* internal state are, and whatever interactions came before.
C1_GroupMembershipDecidesChecked ==
    (Grouped /\ ~GroupCollection.isNull) =>
        /\ attrs.checked \in {"true", "false"}
        /\ attrs.checked = "true" <=>
              \/ props.value = Str("a") /\ Str("a") \in GroupCollection.items
              \/ props.value = Num(1) /\ Str("1") \in GroupCollection.items

\* C1 witness: after an interaction, the item whose value is the number 1 is
\* resolved checked by the member "1" although its checked prop is false and
\* its internal state is false.
C1_Witness ==
    /\ Grouped /\ Interacted
    /\ props.value = Num(1)
    /\ GroupCollection = Collection({Str("1")})
    /\ props.checked = "false"
    /\ ~checkedState
    /\ attrs.checked = "true"

\* C2: an ungrouped Checkbox or a SwitchPrimitive that is given the
\* `checked` prop keeps its internal state at !!defaultChecked through every
\* interaction, and is resolved to the current prop.
C2_ControlledKeepsInternalState ==
    /\ component = "Checkbox" =>
          /\ checkedState = Truthy(props.defaultChecked)
          /\ attrs.checked = props.checked
    /\ component = "SwitchPrimitive" =>
          /\ _checked = Truthy(props.defaultChecked)
          /\ attrs.checked = props.checked

\* C2 witness: a controlled Checkbox, checked by its prop, was unticked by
\* the user and told the application so; its state is still the default.
C2_Witness ==
    /\ component = "Checkbox"
    /\ props.checked = "true"
    /\ props.defaultChecked = undefined
    /\ Interacted
    /\ CalledFns = <<"onChange", "local.onChange">>
    /\ ~calls[2].checked
    /\ ~checkedState
    /\ attrs.checked = "true"

\* The resolved checked value that n interactions leave after a default d.
Alternated(d, n) == ToBool(Truthy(d) = (n % 2 = 0))

\* C3: an ungrouped component without the `checked` prop, neither disabled
\* nor read-only, starts at !!defaultChecked and is flipped by every
\* interaction.
C3_UncontrolledAlternates ==
    /\ attrs.checked = Alternated(props.defaultChecked, interactions)
    /\ component = "Checkbox" => checkedState = Truthy(attrs.checked)
    /\ component = "SwitchPrimitive" => _checked = Truthy(attrs.checked)

\* C3 witness: three interactions after a checked default leave the Checkbox
\* unchecked.
C3_Witness ==
    /\ component = "Checkbox"
    /\ props.defaultChecked = "true"
    /\ interactions = 3
    /\ Interacted
    /\ attrs.checked = "false"

\* The resolved disabled or readOnly flag is true.
Guarded == Truthy(attrs.disabled) \/ Truthy(attrs.readOnly)

\* C4 (as claimed): an interaction with a component whose resolved disabled
\* or readOnly flag is true only suppresses the event's default action: the
\* internal state stays and no handler is called.
C4_GuardedInteractionDoesNothing ==
    [][(Guarded /\ Interacted') =>
          /\ Len(calls') = 2
          /\ calls'[2].fn = "event.preventDefault"
          /\ checkedState' = checkedState
          /\ _checked' = _checked]_vars

\* The order the Checkbox's handler makes its calls in.
Rank(fn) ==
    CASE fn = "onChange" -> 0
      [] fn = "setCheckedState" -> 1
      [] fn = "checkboxGroupContext.onChange" -> 2
      [] fn = "local.onChange" -> 3
      [] OTHER -> 4

\* C5: an accepted interaction with a Checkbox in a group updates the
\* uncontrolled state first, then calls the group's handler, then the
\* item's, each at most once; the item's handler never runs before the
\* group's.
C5_GroupHandlerBeforeItemHandler ==
    (Grouped /\ Interacted /\ ~Called("event.preventDefault")) =>
        /\ \A i, j \in 1..Len(calls) : i < j => Rank(calls[i].fn) < Rank(calls[j].fn)
        /\ Called("checkboxGroupContext.onChange")
        /\ Called("setCheckedState") <=> props.checked = undefined
        /\ Called("setCheckedState") => checkedState = calls[1].checked
        /\ Called("local.onChange") => props.onChange # undefined

\* C5 witness: an uncontrolled Checkbox in a group made all three calls.
C5_Witness ==
    /\ Grouped
    /\ CalledFns = <<"onChange", "setCheckedState", "checkboxGroupContext.onChange",
                     "local.onChange">>

\* C6 (as claimed): under a group whose collection is null the resolved
\* checked value falls through to the checked prop or the internal state, so
\* that it is always a boolean.
C6_NullCollectionFallsThrough ==
    /\ attrs.checked \in {"true", "false"}
    /\ (Grouped /\ GroupCollection.isNull) =>
          attrs.checked = IF props.checked # undefined
                          THEN ToBool(Truthy(props.checked))
                          ELSE ToBool(checkedState)

\* C6 (amended): under a group the group alone decides: membership when its
\* collection is not null, undefined when it is null; only an ungrouped
\* Checkbox is resolved to its checked prop or else its internal state.
C6_GroupAloneDecides ==
    component = "Checkbox" =>
        /\ (Grouped /\ GroupCollection.isNull) => attrs.checked = undefined
        /\ (Grouped /\ ~GroupCollection.isNull) =>
              attrs.checked =
                  ToBool(\E val \in GroupCollection.items : String(val) = String(props.value))
        /\ (~Grouped /\ props.checked # undefined) => attrs.checked = props.checked
        /\ (~Grouped /\ props.checked = undefined) => attrs.checked = ToBool(checkedState)

\* C6 witness: a Checkbox with checked=true and a true internal state is
\* resolved to undefined under a group whose collection is null, also after
\* an interaction.
C6_Witness ==
    /\ Grouped /\ GroupCollection.isNull
    /\ props.checked = "true"
    /\ checkedState
    /\ Interacted
    /\ attrs.checked = undefined

\* The value a flag is resolved to when the item's own value comes first and
\* the given contexts follow in order.
FirstSupplied(values) ==
    IF \E i \in 1..Len(values) : values[i] # undefined
    THEN values[CHOOSE i \in 1..Len(values) :
                    /\ values[i] # undefined
                    /\ \A j \in 1..(i - 1) : values[j] = undefined]
    ELSE undefined

FormControlFlag(f) == IF formControl.present THEN formControl.state[f] ELSE undefined

GroupFlag(f) ==
    IF checkboxGroupContext.present THEN checkboxGroupContext.state[f] ELSE undefined

\* C7 (as claimed): each flag of a Checkbox is the item's own value if that
\* is supplied, otherwise the group's, otherwise undefined.
C7_ItemThenGroup ==
    \A f \in FlagNames : attrs[f] = FirstSupplied(<<props[f], GroupFlag(f)>>)

\* C7 (amended): each flag of a Checkbox is the item's own value if that is
\* supplied (an explicit false too), otherwise the form control's if that is
\* supplied, otherwise the group's, otherwise undefined.
C7_ItemThenFormControlThenGroup ==
    \A f \in FlagNames :
        attrs[f] = FirstSupplied(<<props[f], FormControlFlag(f), GroupFlag(f)>>)

\* C7 witness: an explicit disabled=false of the item stands against a form
\* control and a group that are both disabled.
C7_Witness ==
    /\ props.disabled = "false"
    /\ FormControlFlag("disabled") = "true"
    /\ GroupFlag("disabled") = "true"
    /\ attrs.disabled = "false"

AriaFlagsOk ==
    /\ attrs.ariaRequired = (IF attrs.required = "true" THEN "true" ELSE undefined)
    /\ attrs.ariaDisabled = (IF attrs.disabled = "true" THEN "true" ELSE undefined)
    /\ attrs.ariaInvalid = (IF attrs.invalid = "true" THEN "true" ELSE undefined)
    /\ attrs.ariaReadonly = (IF attrs.readOnly = "true" THEN "true" ELSE undefined)

\* C8 (as claimed): every ARIA attribute is true when its state is true and
\* omitted otherwise, aria-checked of the SwitchPrimitive included.
C8_AriaTrueOrOmitted ==
    /\ AriaFlagsOk
    /\ component = "SwitchPrimitive" =>
          attrs.ariaChecked = (IF attrs.checked = "true" THEN "true" ELSE undefined)

\* C8 (amended): aria-required, aria-disabled, aria-invalid and aria-readonly
\* are true when their state is true and omitted otherwise; aria-checked is
\* emitted by the SwitchPrimitive alone and always carries the resolved
\* checked boolean, true or false.
C8_AriaCheckedIsTheBoolean ==
    /\ AriaFlagsOk
    /\ component = "SwitchPrimitive" =>
          /\ attrs.ariaChecked \in {"true", "false"}
          /\ attrs.ariaChecked = attrs.checked
    /\ component = "Checkbox" => attrs.ariaChecked = undefined

\* C8 witness: a clicked, unchecked, required SwitchPrimitive emits
\* aria-checked=false and aria-required=true and omits aria-disabled.
C8_Witness ==
    /\ component = "SwitchPrimitive"
    /\ Interacted
    /\ ~_checked
    /\ attrs.ariaChecked = "false"
    /\ FormControlFlag("required") = "true"
    /\ attrs.ariaRequired = "true"
    /\ attrs.ariaDisabled = undefined

Marker(on) == IF on THEN "" ELSE undefined

\* C9: every data attribute is the empty string when its state is truthy and
\* omitted otherwise; data-checked is there exactly when the resolved
\* checked value is true.
C9_DataAttributesMarkTruthyState ==
    /\ attrs.dataChecked = Marker(attrs.checked = "true")
    /\ attrs.dataRequired = Marker(attrs.required = "true")
    /\ attrs.dataDisabled = Marker(attrs.disabled = "true")
    /\ attrs.dataInvalid = Marker(attrs.invalid = "true")
    /\ attrs.dataReadonly = Marker(attrs.readOnly = "true")
    /\ component = "Checkbox" =>
          attrs.dataIndeterminate = Marker(props.indeterminate = "true")
    /\ component = "SwitchPrimitive" => attrs.dataFocus = Marker(isFocused)

\* C9 witness: a Checkbox ticked by the user carries data-checked, and omits
\* data-invalid for an explicit invalid=false.
C9_Witness ==
    /\ component = "Checkbox"
    /\ Interacted
    /\ checkedState
    /\ attrs.dataChecked = ""
    /\ props.invalid = "false"
    /\ attrs.dataInvalid = undefined

\* The Checkbox as it would be with another `indeterminate`.
WithIndeterminate(v) == [props EXCEPT !.indeterminate = v]

\* C10: `indeterminate` only chooses the indicator.  The indeterminate
\* indicator is rendered whenever indeterminate is true and the checked one
\* only when the Checkbox is checked and not indeterminate; and every
\* interaction leaves the state, the resolved checked value and the calls,
\* with their arguments, that it would have left with any other
\* `indeterminate`.
C10_IndeterminateOnlyChoosesIndicator ==
    /\ [](component = "Checkbox" =>
            /\ props.indeterminate = "true" => attrs.indicator = "iconIndeterminate"
            /\ attrs.indicator = "iconChecked" <=>
                  (attrs.checked = "true" /\ props.indeterminate # "true")
            /\ \A v \in OptBool :
                  checked(WithIndeterminate(v), checkboxGroupContext, checkedState)
                      = attrs.checked)
    /\ [][(component = "Checkbox" /\ Interacted') =>
            \A v \in OptBool :
                \E throws \in ThrowSets :
                    LET target == [checked |-> ~inputChecked, value |-> String(props.value)]
                        r == onChange(WithIndeterminate(v), checkboxGroupContext,
                                      checkedState, target, throws)
                    IN /\ checkedState' = r.checkedState
                       /\ calls' = <<Call("onChange", target.checked, target.value)>>
                                       \o r.calls]_vars

\* C10 witness: an indeterminate Checkbox in a group, ticked by the user, is
\* resolved checked, told both handlers so and still shows the indeterminate
\* indicator.
C10_Witness ==
    /\ Grouped
    /\ props.indeterminate = "true"
    /\ Called("checkboxGroupContext.onChange") /\ Called("local.onChange")
    /\ calls[1].checked
    /\ attrs.checked = "true"
    /\ attrs.indicator = "iconIndeterminate"

\* The last step rendered a component that reads the switch's context.
ConsumerRendered == calls # <<>> /\ calls[1].fn = "Consumer"

\* The calls an accepted change of an ungrouped Checkbox makes.
UngroupedChange ==
    <<"onChange">>
    \o (IF props.checked = undefined THEN <<"setCheckedState">> ELSE <<>>)
    \o (IF props.onChange # undefined THEN <<"local.onChange">> ELSE <<>>)

\* C11: useSwitcPrimitivehContext() called where no SwitchPrimitive is above
\* throws the error that names the accessor and the component it needs, and
\* returns no context; called inside a SwitchPrimitive it returns, without
\* error, the context whose state is the switch's state.  A Checkbox with
\* no CheckboxGroup above it is no error: it is resolved to a boolean from
\* its prop or its internal state, and an accepted change updates the
\* uncontrolled state and calls the handler it was given.
C11_AccessorThrowsWithoutProvider ==
    /\ ConsumerRendered =>
          /\ Len(calls) = 2
          /\ IF calls[1].inside
             THEN /\ ~calls[2].threw
                  /\ calls[2].error = undefined
                  /\ calls[2].context.present
                  /\ calls[2].context.state = state(props, formControl, _checked, isFocused)
                  /\ ToBool(calls[2].context.state.checked) = attrs.checked
             ELSE /\ calls[2].threw
                  /\ calls[2].error = ContextError
                  /\ ~calls[2].context.present
    /\ (component = "Checkbox" /\ ~checkboxGroupContext.present) =>
          /\ attrs.checked = ToBool(IF props.checked # undefined
                                    THEN props.checked = "true" ELSE checkedState)
          /\ (Interacted /\ ~Guarded) =>
                /\ CalledFns = UngroupedChange
                /\ props.checked = undefined => checkedState = calls[1].checked

\* C11 witness: the accessor, called beside a mounted SwitchPrimitive and
\* not under it, threw.
C11_Witness ==
    /\ component = "SwitchPrimitive"
    /\ ConsumerRendered
    /\ ~calls[1].inside
    /\ calls[2].threw

\* C11: the accessor returned the context of a switch that is checked, and
\* an ungrouped Checkbox took a change.
C11_ReturnedInside ==
    ConsumerRendered /\ calls[1].inside /\ calls[2].context.state.checked

C11_UngroupedChanged ==
    component = "Checkbox" /\ Interacted /\ CalledFns = <<"onChange", "setCheckedState", "local.onChange">>

\* The user's handler that matches an event.
UserHandler(event) == IF event.type = "keydown" THEN "onKeyDown" ELSE "onKeyUp"

\* C12: a step in which a key event arrives at the element keeps what the
\* earlier events did and adds the call of the element's handler; when
\* isDisabled is true at that moment, or the user gave no matching handler,
\* it adds nothing else; otherwise it adds exactly one call, of the user's
\* matching handler with that event.  A step that only changes isDisabled
\* calls nothing and leaves what the earlier events did as it is.
C12_DisabledAtEventTimeCallsNothing ==
    [][IF interactions' # interactions
       THEN LET n == Len(calls)
                event == calls'[n + 1].event
            IN /\ SubSeq(calls', 1, n) = calls
               /\ calls'[n + 1].fn = "keyboardProps." \o UserHandler(event)
               /\ event.n = interactions'
               /\ IF props.isDisabled = "true" \/ props[UserHandler(event)] = undefined
                  THEN Len(calls') = n + 1
                  ELSE /\ Len(calls') = n + 2
                       /\ calls'[n + 2] = KeyCall("props." \o UserHandler(event), event)
       ELSE calls' = calls]_vars

\* C12 witness: with a handler given for both events, the first event
\* called nothing, the second called onKeyUp, the third called nothing
\* again: isDisabled was true, then false or unset, then true.
C12_Witness ==
    /\ component = "createKeyboard"
    /\ props.onKeyDown = "function" /\ props.onKeyUp = "function"
    /\ props.isDisabled = "true"
    /\ [i \in 1..Len(calls) |-> calls[i].fn] =
          <<"keyboardProps.onKeyDown", "keyboardProps.onKeyUp", "props.onKeyUp",
            "keyboardProps.onKeyDown">>
    /\ calls[3].event = calls[2].event

\* The last step was a click on a SwitchPrimitive that is neither disabled
\* nor read-only.
SwitchAccepted == component = "SwitchPrimitive" /\ Interacted /\ ~Guarded

\* Where in `calls` the handler fn was called.
CallsOf(fn) == {i \in 1..Len(calls) : calls[i].fn = fn}

\* C13: an accepted click on a SwitchPrimitive calls the onChange it was
\* given exactly once, with the negation of the checked value as it was
\* resolved before the click, and before it calls onClick.  Given the
\* `checked` prop, the click leaves _checked as it is and reports the
\* negation of the prop, so that every click made under the same prop
\* reports the same value.
C13_ClickReportsNegationBeforeOnClick ==
    /\ [](SwitchAccepted =>
            /\ Cardinality(CallsOf("local.onChange"))
                  = (IF props.onChange # undefined THEN 1 ELSE 0)
            /\ \A i \in CallsOf("local.onChange") :
                  /\ calls[i].checked = ~calls[1].checked
                  /\ \A j \in CallsOf("local.onClick") : i < j
                  /\ props.checked # undefined =>
                        calls[i].checked = ~(props.checked = "true")
            /\ Cardinality(CallsOf("local.onClick")) <= 1
            /\ props.checked # undefined => CallsOf("setState") = {}
            /\ props.checked = undefined => _checked = ~calls[1].checked)
    /\ [][(component = "SwitchPrimitive" /\ props.checked # undefined
                /\ calls' # <<>> /\ calls'[1].fn = "onClick")
            => _checked' = _checked]_vars

\* C13 witness: a switch whose `checked` prop is true and whose internal
\* state is false was clicked: it reported false, then called onClick, and
\* its internal state is still false.
C13_Witness ==
    /\ SwitchAccepted
    /\ props.checked = "true"
    /\ ~_checked
    /\ CalledFns = <<"onClick", "local.onChange", "local.onClick">>
    /\ ~calls[2].checked

====
